---- MODULE Spec2Model ----
(***************************************************************************)
(* The three request handlers of the Notion bridge:                        *)
(*   "part_000" : src/unnamed/part_000, handler (full schema)              *)
(*   "cases_1"  : src/api/cases.js lines 1-178, handler + buildProperties  *)
(*   "cases_2"  : src/api/cases.js lines 180-279, handler (legacy)         *)
(* and the pure helpers they call.  JavaScript strings are sequences of    *)
(* one-character strings; opaque texts the handlers never look inside      *)
(* (messages, codes, record ids) are one-element sequences.                *)
(***************************************************************************)
EXTENDS Integers, Sequences, FiniteSets, TLC

VARIABLES variant, env, pc, req, res, calls, settled, checked, fn, arg, ret

vars == <<variant, env, pc, req, res, calls, settled, checked, fn, arg, ret>>

----------------------------------------------------------------------------
(* JavaScript values *)

JSVal(t, s, n, l, o) == [t |-> t, s |-> s, n |-> n, l |-> l, o |-> o]

Undefined == JSVal("undefined", <<>>, 0, <<>>, <<>>)
Null == JSVal("null", <<>>, 0, <<>>, <<>>)
NaN == JSVal("NaN", <<>>, 0, <<>>, <<>>)
Str(s) == JSVal("string", s, 0, <<>>, <<>>)
Num(n) == JSVal("number", <<>>, n, <<>>, <<>>)
Bool(b) == JSVal("boolean", <<>>, IF b THEN 1 ELSE 0, <<>>, <<>>)
Arr(l) == JSVal("array", <<>>, 0, l, <<>>)
Obj(o) == JSVal("object", <<>>, 0, <<>>, o)
Lit(x) == Str(<<x>>)

\* a request body that arrives as text: the text denotes the JSON document doc
JsonText(doc) == JSVal("string", <<"{json}">>, 0, <<>>, doc)

Nullish(v) == v.t \in {"undefined", "null"}

\* a ?? b
Coalesce(a, b) == IF Nullish(a) THEN b ELSE a

\* ToBoolean
Truthy(v) ==
  CASE v.t \in {"undefined", "null", "NaN"} -> FALSE
    [] v.t = "string" -> Len(v.s) > 0
    [] v.t \in {"number", "boolean"} -> v.n # 0
    [] OTHER -> TRUE

\* a || b
OrElse(a, b) == IF Truthy(a) THEN a ELSE b

\* obj.key
Get(obj, k) == IF k \in DOMAIN obj.o THEN obj.o[k] ELSE Undefined

Min(S) == CHOOSE x \in S : \A y \in S : x <= y
Max(S) == CHOOSE x \in S : \A y \in S : x >= y

----------------------------------------------------------------------------
(* String primitives *)

WhiteSpace == {" ", "\t", "\n"}

DigitChars == <<"0", "1", "2", "3", "4", "5", "6", "7", "8", "9">>

HexChars ==
  {"0", "1", "2", "3", "4", "5", "6", "7", "8", "9",
   "a", "b", "c", "d", "e", "f", "A", "B", "C", "D", "E", "F"}

\* String.prototype.trim
trim(s) ==
  LET keep == {i \in 1..Len(s) : s[i] \notin WhiteSpace}
  IN IF keep = {} THEN <<>> ELSE SubSeq(s, Min(keep), Max(keep))

\* String.prototype.slice(a, b) and slice(a): 0-based, end exclusive
slice(s, a, b) == SubSeq(s, a + 1, b)
sliceFrom(s, a) == SubSeq(s, a + 1, Len(s))

LowerChar(c) ==
  CASE c = "A" -> "a" [] c = "B" -> "b" [] c = "C" -> "c"
    [] c = "D" -> "d" [] c = "E" -> "e" [] c = "F" -> "f"
    [] OTHER -> c

toLowerCase(s) == [i \in 1..Len(s) |-> LowerChar(s[i])]

\* s.replace(/-/g, "")
replaceDashes(s) == SelectSeq(s, LAMBDA c : c # "-")

RECURSIVE split(_)
\* s.split(",")
split(s) ==
  LET commas == {i \in 1..Len(s) : s[i] = ","}
  IN IF commas = {} THEN <<s>>
     ELSE <<SubSeq(s, 1, Min(commas) - 1)>> \o split(SubSeq(s, Min(commas) + 1, Len(s)))

RECURSIVE Digits(_)
\* decimal text of a non-negative integer
Digits(n) == IF n < 10 THEN <<DigitChars[n + 1]>> ELSE Digits(n \div 10) \o <<DigitChars[(n % 10) + 1]>>

DigitValue(c) == CHOOSE d \in 0..9 : DigitChars[d + 1] = c

RECURSIVE ParseDigits(_)
ParseDigits(s) ==
  IF Len(s) = 0 THEN 0 ELSE 10 * ParseDigits(SubSeq(s, 1, Len(s) - 1)) + DigitValue(s[Len(s)])

RECURSIVE join(_)
\* Array.prototype.join(",") on a sequence of texts
join(l) == IF Len(l) = 0 THEN <<>> ELSE IF Len(l) = 1 THEN l[1] ELSE l[1] \o <<",">> \o join(Tail(l))

\* String(x) of a value that is no array
ScalarString(v) ==
  CASE v.t = "string" -> v.s
    [] v.t = "number" -> Digits(v.n)
    [] v.t = "boolean" -> IF v.n = 1 THEN <<"t", "r", "u", "e">> ELSE <<"f", "a", "l", "s", "e">>
    [] v.t = "NaN" -> <<"N", "a", "N">>
    [] v.t = "null" -> <<"n", "u", "l", "l">>
    [] v.t = "undefined" -> <<"u", "n", "d", "e", "f", "i", "n", "e", "d">>
    [] OTHER -> <<"[object Object]">>

\* String(x): an array joins its elements, null and undefined elements as ""
String(v) ==
  IF v.t = "array"
  THEN join([i \in 1..Len(v.l) |-> IF Nullish(v.l[i]) THEN <<>> ELSE ScalarString(v.l[i])])
  ELSE ScalarString(v)

\* Number(x) of a text: blank is 0, digits are their value, anything else NaN
StringToNumber(s) ==
  LET t == trim(s)
  IN IF t = <<>> THEN Num(0)
     ELSE IF \A i \in 1..Len(t) : \E d \in 1..10 : DigitChars[d] = t[i] THEN Num(ParseDigits(t))
     ELSE NaN

\* Number(x)
Number(v) ==
  CASE v.t \in {"number", "boolean"} -> Num(v.n)
    [] v.t = "null" -> Num(0)
    [] v.t = "string" -> StringToNumber(v.s)
    [] v.t = "array" -> StringToNumber(String(v))
    [] OTHER -> NaN

\* Number.isFinite
isFinite(v) == v.t = "number"

----------------------------------------------------------------------------
(* Helpers of the handlers *)

\* src/unnamed/part_000: safeStr
safeStr(v) == IF Nullish(v) THEN <<>> ELSE String(v)

\* src/api/cases.js: toStr
toStr(v) == IF Nullish(v) THEN <<>> ELSE IF v.t = "string" THEN v.s ELSE String(v)

\* src/unnamed/part_000: toNumberOrNull
toNumberOrNull(v) ==
  IF Nullish(v) \/ v = Str(<<>>) THEN Null
  ELSE LET n == Number(v) IN IF isFinite(n) THEN n ELSE Null

\* Array.prototype.filter(Boolean) on texts
filterBoolean(l) == SelectSeq(l, LAMBDA x : Len(x) > 0)

\* src/unnamed/part_000: normalizeArray
normalizeArray(v) ==
  IF Nullish(v) THEN <<>>
  ELSE IF v.t = "array" THEN filterBoolean([i \in 1..Len(v.l) |-> safeStr(v.l[i])])
  ELSE LET parts == split(safeStr(v))
       IN filterBoolean([i \in 1..Len(parts) |-> trim(parts[i])])

HexLen == 32

AllHex(s) == \A i \in 1..Len(s) : s[i] \in HexChars

\* raw.match(/[0-9a-fA-F]{32}/): the leftmost run of 32 hex characters
matchHex(raw) ==
  LET starts == {i \in 1..(Len(raw) - HexLen + 1) : AllHex(SubSeq(raw, i, i + HexLen - 1))}
  IN IF starts = {} THEN [found |-> FALSE, m |-> <<>>]
     ELSE [found |-> TRUE, m |-> SubSeq(raw, Min(starts), Min(starts) + HexLen - 1)]

\* /^[0-9a-fA-F]{32}$/.test(candidate)
testHex(candidate) == Len(candidate) = HexLen /\ AllHex(candidate)

\* the 8-4-4-4-12 form without the final toLowerCase()
dashed_keepCase(candidate) ==
  slice(candidate, 0, 8) \o <<"-">> \o slice(candidate, 8, 12) \o <<"-">>
  \o slice(candidate, 12, 16) \o <<"-">> \o slice(candidate, 16, 20) \o <<"-">>
  \o sliceFrom(candidate, 20)

\* the returned 8-4-4-4-12 form
dashed(candidate) ==
  toLowerCase(slice(candidate, 0, 8) \o <<"-">> \o slice(candidate, 8, 12) \o <<"-">>
              \o slice(candidate, 12, 16) \o <<"-">> \o slice(candidate, 16, 20) \o <<"-">>
              \o sliceFrom(candidate, 20))

\* src/unnamed/part_000: normalizeNotionDbId
normalizeNotionDbId_part000(input) ==
  LET raw == trim(String(OrElse(input, Str(<<>>))))
      urlMatch == matchHex(raw)
      candidate == replaceDashes(IF urlMatch.found THEN urlMatch.m ELSE raw)
  IN IF ~testHex(candidate) THEN Null ELSE Str(dashed(candidate))

\* src/api/cases.js: normalizeNotionDbId
normalizeNotionDbId_cases(input) ==
  LET raw == trim(toStr(input))
      urlMatch == matchHex(raw)
      candidate == IF urlMatch.found THEN urlMatch.m ELSE replaceDashes(raw)
  IN IF ~testHex(candidate) THEN Null ELSE Str(dashed(candidate))

----------------------------------------------------------------------------
(* HTTP responses, create calls, and what the Notion client returns *)

\* JSON.stringify of a payload object: members whose value is undefined are dropped
JSONstringify(payload) == [k \in {f \in DOMAIN payload : payload[f] # Undefined} |-> payload[k]]

\* res.status(n).json(payload)
Json(n, payload) == [statusCode |-> n, json |-> TRUE, body |-> JSONstringify(payload)]

\* res.status(n).end()
End(n) == [statusCode |-> n, json |-> FALSE, body |-> <<>>]

\* res.setHeader(name, value)
setHeader(headers, name, value) == {h \in headers : h[1] # name} \cup {<<name, value>>}

\* the opening setHeader calls without Access-Control-Allow-Methods
Cors_noMethods(allowHeaders) ==
  setHeader(setHeader({}, "Access-Control-Allow-Origin", "*"),
            "Access-Control-Allow-Headers", allowHeaders)

\* the three setHeader calls that open every handler
Cors(allowHeaders) ==
  setHeader(setHeader(setHeader({}, "Access-Control-Allow-Origin", "*"),
                      "Access-Control-Allow-Methods", "POST,OPTIONS"),
            "Access-Control-Allow-Headers", allowHeaders)

\* src/api/cases.js: json(res, status, payload)
json(r, status, payload) ==
  [headers |-> setHeader(r.headers, "Content-Type", "application/json"),
   sent |-> Append(r.sent, Json(status, payload))]

\* res.status(n).json(payload) / res.status(n).end() on the response object
send(r, response) == [r EXCEPT !.sent = Append(@, response)]

FreshRes == [headers |-> {}, sent |-> <<>>]

\* one property of the Notion property set
Prop(type, v) == [type |-> type, v |-> v]
PropUndefined == Prop("undefined", Undefined)

\* if (cond) props[name] = prop
PropIf(cond, name, prop) == IF cond THEN name :> prop ELSE <<>>

\* what an error thrown inside the try block carries
Err(message, code, status, body) == [message |-> message, code |-> code, status |-> status, body |-> body]

\* JSON.parse of a malformed text
SyntaxError == Err(Lit("Unexpected token in JSON"), Undefined, Undefined, Undefined)
\* reading a property of null
TypeError == Err(Lit("Cannot read properties of null"), Undefined, Undefined, Undefined)

\* JSON.parse(text)
JSONparse(text) ==
  IF text.s = <<"{json}">> THEN [throws |-> FALSE, value |-> text.o]
  ELSE [throws |-> TRUE, value |-> Undefined]

\* Object.keys(obj), as texts, in a fixed enumeration order
KeyOrder ==
  <<"CaseID", "caseId", "Status", "status", "Urgency", "urgency", "Specialty", "specialty",
    "Age", "age", "Gender", "gender", "Country", "country",
    "ChiefComplaint", "chiefComplaint", "Imaging", "imaging", "Notes", "notes",
    "AssignedTo", "assignedTo", "HospitalsShortlist", "hospitalsShortlist",
    "Budget", "budget", "Source", "source", "CreatedAt",
    "anonymizedSummary", "countryPreference">>

Keys == {KeyOrder[i] : i \in 1..Len(KeyOrder)}

ObjectKeys(obj) ==
  LET present == SelectSeq(KeyOrder, LAMBDA k : k \in DOMAIN obj.o)
  IN Arr([i \in 1..Len(present) |-> Lit(present[i])])

----------------------------------------------------------------------------
(* src/unnamed/part_000: handler *)

\* lines 79-94: accept both camelCase and NotionCase
data_part000(body) ==
  [CaseID |-> Coalesce(Get(body, "CaseID"), Get(body, "caseId")),
   Status |-> Coalesce(Get(body, "Status"), Get(body, "status")),
   Urgency |-> Coalesce(Get(body, "Urgency"), Get(body, "urgency")),
   Specialty |-> Coalesce(Get(body, "Specialty"), Get(body, "specialty")),
   Age |-> Coalesce(Get(body, "Age"), Get(body, "age")),
   Gender |-> Coalesce(Get(body, "Gender"), Get(body, "gender")),
   Country |-> Coalesce(Get(body, "Country"), Get(body, "country")),
   ChiefComplaint |-> Coalesce(Get(body, "ChiefComplaint"), Get(body, "chiefComplaint")),
   Imaging |-> Coalesce(Get(body, "Imaging"), Get(body, "imaging")),
   Notes |-> Coalesce(Get(body, "Notes"), Get(body, "notes")),
   AssignedTo |-> Coalesce(Get(body, "AssignedTo"), Get(body, "assignedTo")),
   HospitalsShortlist |-> Coalesce(Get(body, "HospitalsShortlist"), Get(body, "hospitalsShortlist")),
   Budget |-> Coalesce(Get(body, "Budget"), Get(body, "budget")),
   Source |-> Coalesce(Coalesce(Get(body, "Source"), Get(body, "source")), Lit("GPT"))]

\* cond ? { select: { name: text } } : undefined, and its rich_text twin
TextProp(type, v) ==
  IF Len(trim(safeStr(v))) > 0 THEN Prop(type, Str(trim(safeStr(v)))) ELSE PropUndefined

\* toNumberOrNull(v) !== null ? { number: toNumberOrNull(v) } : undefined
NumberProp(v) == IF toNumberOrNull(v) # Null THEN Prop("number", toNumberOrNull(v)) ELSE PropUndefined

\* normalizeArray(v).length ? { multi_select: normalizeArray(v).map(...) } : undefined
MultiSelectProp(v) ==
  LET names == normalizeArray(v)
  IN IF Len(names) > 0 THEN Prop("multi_select", Arr([i \in 1..Len(names) |-> Str(names[i])]))
     ELSE PropUndefined

\* lines 114-148: the object literal, undefined members included
literal_part000(body, nowIso) ==
  LET data == data_part000(body)
  IN [CaseID |-> Prop("title", Str(trim(safeStr(data.CaseID)))),
      Status |-> Prop("select", Str(trim(safeStr(data.Status)))),
      Urgency |-> Prop("select", Str(trim(safeStr(data.Urgency)))),
      Specialty |-> Prop("select", Str(trim(safeStr(data.Specialty)))),
      Age |-> NumberProp(data.Age),
      Gender |-> TextProp("select", data.Gender),
      Country |-> TextProp("select", data.Country),
      ChiefComplaint |-> TextProp("rich_text", data.ChiefComplaint),
      Imaging |-> TextProp("rich_text", data.Imaging),
      Notes |-> TextProp("rich_text", data.Notes),
      HospitalsShortlist |-> MultiSelectProp(data.HospitalsShortlist),
      Budget |-> NumberProp(data.Budget),
      CreatedAt |-> Prop("date", Coalesce(Get(body, "CreatedAt"), nowIso)),
      LastEdited |-> Prop("date", nowIso),
      Source |-> Prop("select", OrElse(Str(trim(safeStr(data.Source))), Lit("GPT")))]

\* lines 153-158: delete AssignedTo, then every member that is undefined
deleteUndefined(properties) ==
  LET kept == {k \in DOMAIN properties \ {"AssignedTo"} : properties[k] # PropUndefined}
  IN [k \in kept |-> properties[k]]

properties_part000(body, nowIso) == deleteUndefined(literal_part000(body, nowIso))

\* the required-field test without its last disjunct
missingRequired_part000_noSpecialty(body) ==
  LET data == data_part000(body)
  IN \/ Len(trim(safeStr(data.CaseID))) = 0
     \/ Len(trim(safeStr(data.Status))) = 0
     \/ Len(trim(safeStr(data.Urgency))) = 0

\* lines 97-102: the required-field test
missingRequired_part000(body) ==
  LET data == data_part000(body)
  IN \/ Len(trim(safeStr(data.CaseID))) = 0
     \/ Len(trim(safeStr(data.Status))) = 0
     \/ Len(trim(safeStr(data.Urgency))) = 0
     \/ Len(trim(safeStr(data.Specialty))) = 0

\* the 400 payload echoing the members' values instead of their names
missingPayload_part000_echoValues(body) ==
  LET b == OrElse(body, Obj(<<>>))
      present == SelectSeq(KeyOrder, LAMBDA k : k \in DOMAIN b.o)
  IN [success |-> Bool(FALSE),
      error |-> Lit("Missing required fields"),
      required |-> Arr(<<Lit("caseId/CaseID"), Lit("status/Status"),
                         Lit("urgency/Urgency"), Lit("specialty/Specialty")>>),
      receivedKeys |-> Arr([i \in 1..Len(present) |-> b.o[present[i]]])]

\* lines 103-108
missingPayload_part000(body) ==
  [success |-> Bool(FALSE),
   error |-> Lit("Missing required fields"),
   required |-> Arr(<<Lit("caseId/CaseID"), Lit("status/Status"),
                      Lit("urgency/Urgency"), Lit("specialty/Specialty")>>),
   receivedKeys |-> ObjectKeys(OrElse(body, Obj(<<>>)))]

\* lines 170-179: the catch clause
catch_part000(err) ==
  Json(500, [success |-> Bool(FALSE),
             error |-> Lit("Notion write failed"),
             message |-> OrElse(err.message, Lit("String(err)")),
             code |-> err.code,
             status |-> err.status,
             body |-> IF Truthy(err.body) THEN Str(String(err.body)) ELSE Undefined])

\* the success response without the created record's identifier
created_part000_noId(created, body) ==
  Json(200, [success |-> Bool(TRUE),
             CaseID |-> Str(trim(safeStr(data_part000(body).CaseID)))])

\* lines 165-169
created_part000(created, body) ==
  Json(200, [success |-> Bool(TRUE),
             notionPageId |-> created.id,
             CaseID |-> Str(trim(safeStr(data_part000(body).CaseID)))])

\* line 76: typeof req.body === "string" ? JSON.parse(req.body) : (req.body || {})
body_part000(r) ==
  IF r.body.t = "string" THEN JSONparse(r.body)
  ELSE [throws |-> FALSE, value |-> OrElse(r.body, Obj(<<>>))]

----------------------------------------------------------------------------
(* src/api/cases.js, lines 1-178: buildProperties and handler *)

\* lines 48-98: buildProperties; error is undefined when the properties were built
buildProperties(body) ==
  LET caseId == trim(toStr(Get(body, "caseId")))
      status == trim(toStr(OrElse(Get(body, "status"), Lit("New"))))
      specialty == trim(toStr(Get(body, "specialty")))
      urgency == trim(toStr(Get(body, "urgency")))
      country == trim(toStr(Get(body, "country")))
      chiefComplaint == trim(toStr(Get(body, "chiefComplaint")))
      imaging == trim(toStr(Get(body, "imaging")))
      notes == trim(toStr(Get(body, "notes")))
  IN IF Len(caseId) = 0
     THEN [error |-> Lit("caseId is required"), props |-> <<>>]
     ELSE [error |-> Undefined,
           props |->
             [CaseID |-> Prop("title", Str(caseId)),
              Status |-> Prop("select", OrElse(Str(status), Lit("New")))]
             @@ PropIf(Len(specialty) > 0, "Specialty", Prop("select", Str(specialty)))
             @@ PropIf(Len(urgency) > 0, "Urgency", Prop("select", Str(urgency)))
             @@ PropIf(Len(country) > 0, "Country", Prop("select", Str(country)))
             @@ PropIf(Len(chiefComplaint) > 0, "ChiefComplaint", Prop("rich_text", Str(chiefComplaint)))
             @@ PropIf(Len(imaging) > 0, "Imaging", Prop("rich_text", Str(imaging)))
             @@ PropIf(Len(notes) > 0, "Notes", Prop("rich_text", Str(notes)))]

\* the catch clause reporting a fixed code instead of the error's
catch_cases1_fixedCode(err) ==
  [success |-> Bool(FALSE),
   error |-> Lit("Notion write failed"),
   message |-> OrElse(err.message, Lit("Unknown error")),
   code |-> Lit("unknown_error"),
   status |-> OrElse(err.status, Num(500)),
   body |-> IF Truthy(err.body) THEN Str(toStr(err.body)) ELSE Undefined]

\* lines 163-177: the catch clause
catch_cases1(err) ==
  [success |-> Bool(FALSE),
   error |-> Lit("Notion write failed"),
   message |-> OrElse(err.message, Lit("Unknown error")),
   code |-> OrElse(err.code, Lit("unknown_error")),
   status |-> OrElse(err.status, Num(500)),
   body |-> IF Truthy(err.body) THEN Str(toStr(err.body)) ELSE Undefined]

\* lines 159-162
created_cases1(created) == [success |-> Bool(TRUE), notionPageId |-> created.id]

----------------------------------------------------------------------------
(* src/api/cases.js, lines 180-279: handler *)

\* line 207: typeof req.body === "string" ? JSON.parse(req.body) : req.body
body_cases2(r) ==
  IF r.body.t = "string" THEN JSONparse(r.body) ELSE [throws |-> FALSE, value |-> r.body]

\* lines 225-251
properties_cases2(b) ==
  ("Case ID" :> Prop("title", Str(String(Get(b, "caseId")))))
  @@ PropIf(Truthy(Get(b, "status")), "Status", Prop("status", Str(String(Get(b, "status")))))
  @@ PropIf(Truthy(Get(b, "anonymizedSummary")), "Anonymized Summary",
            Prop("rich_text", Str(String(Get(b, "anonymizedSummary")))))
  @@ PropIf(Truthy(Get(b, "specialty")), "Specialty", Prop("select", Str(String(Get(b, "specialty")))))
  @@ PropIf(Truthy(Get(b, "urgency")), "Urgency", Prop("select", Str(String(Get(b, "urgency")))))
  @@ PropIf(Truthy(Get(b, "countryPreference")), "Country Preference",
            Prop("rich_text", Str(String(Get(b, "countryPreference")))))

\* lines 263-278: the catch clause
catch_cases2(err) ==
  Json(500, [success |-> Bool(FALSE),
             error |-> Lit("Notion write failed"),
             message |-> OrElse(err.message, Lit("String(err)")),
             code |-> OrElse(err.code, Null),
             status |-> OrElse(err.status, Null),
             body |-> OrElse(err.body, Null)])

\* lines 258-262
created_cases2(created) ==
  Json(200, [success |-> Bool(TRUE), id |-> created.id, notionUrl |-> created.url])

----------------------------------------------------------------------------
(* Inputs: configurations, request bodies, and outcomes of the create call *)

Token == <<"2","d","3","1","c","7","0","f","c","e","6","f","8","0","9","6",
           "9","f","7","a","d","4","b","d","1","e","c","d","1","6","a","4">>

TokenUpper == <<"2","D","3","1","C","7","0","F","C","E","6","F","8","0","9","6",
                "9","F","7","A","D","4","B","D","1","E","C","D","1","6","A","4">>

NotionUrl == <<"h","t","t","p","s",":","/","/","n","o","t","i","o","n",".","s","o","/">>

\* "2D31C70F-CE6F-8096-9F7A-D4BD1ECD16A4"
DashedUpper ==
  SubSeq(TokenUpper, 1, 8) \o <<"-">> \o SubSeq(TokenUpper, 9, 12) \o <<"-">>
  \o SubSeq(TokenUpper, 13, 16) \o <<"-">> \o SubSeq(TokenUpper, 17, 20) \o <<"-">>
  \o SubSeq(TokenUpper, 21, 32)

\* process.env.NOTION_DATABASE_ID
DatabaseIds ==
  {Undefined, Str(<<>>), Str(Token), Str(DashedUpper),
   Str(NotionUrl \o Token \o <<"?","v","=","1">>),
   Str(SubSeq(Token, 1, 31)), Str(NotionUrl \o DashedUpper)}

\* process.env.NOTION_TOKEN
Tokens == {Undefined, Str(<<>>), Lit("secret_token")}

Envs == [NOTION_TOKEN : Tokens, NOTION_DATABASE_ID : DatabaseIds]

Variants == {"part_000", "cases_1", "cases_2"}

\* new Date().toISOString()
Clock == {Lit("2026-01-01T00:00:00.000Z")}

FieldValues ==
  {Null, Str(<<>>), Str(<<" ">>), Str(<<"a">>), Str(<<" ", "a", " ">>), Str(<<"7">>),
   Str(<<"a", ",", " ", ",", "b">>), Num(0), Num(7),
   Arr(<<>>), Arr(<<Str(<<" ">>)>>), Arr(<<Str(<<" ", "a">>), Null, Str(<<"b">>)>>)}

RequiredCanonical ==
  [CaseID |-> Str(<<"c", "1">>), Status |-> Str(<<"N", "e", "w">>),
   Urgency |-> Str(<<"H", "i">>), Specialty |-> Str(<<"E", "N", "T">>)]

RequiredAlias ==
  [caseId |-> Str(<<"c", "2">>), status |-> Str(<<"O", "p", "e", "n">>),
   urgency |-> Str(<<"L", "o">>), specialty |-> Str(<<"G", "P">>)]

FullAlias ==
  RequiredAlias @@
  [age |-> Num(41), gender |-> Str(<<"F">>), country |-> Str(<<"D", "E">>),
   chiefComplaint |-> Str(<<"p", "a", "i", "n">>), imaging |-> Str(<<"M", "R", "I">>),
   notes |-> Str(<<"n">>), assignedTo |-> Str(<<"b", "o", "b">>),
   hospitalsShortlist |-> Str(<<"A", ",", " ", "B", ",", " ", ",", "C">>),
   budget |-> Str(<<"1", "7">>), source |-> Str(<<"w", "e", "b">>),
   CreatedAt |-> Lit("2025-12-31T00:00:00.000Z"),
   anonymizedSummary |-> Str(<<"s">>), countryPreference |-> Str(<<"F", "R">>)]

BaseObjects == {<<>>, RequiredCanonical, RequiredAlias, FullAlias}

Override(o, k, v) == [x \in DOMAIN o \cup {k} |-> IF x = k THEN v ELSE o[x]]
Delete(o, k) == [x \in DOMAIN o \ {k} |-> o[x]]

\* every base object, and every base object with one member set or removed
Objects ==
  BaseObjects
  \cup {Override(o, k, v) : o \in BaseObjects, k \in Keys, v \in FieldValues}
  \cup {Delete(o, k) : o \in BaseObjects, k \in Keys}

\* req.body: absent, null, texts (empty, malformed, "null", an object), parsed objects
SmallBodies ==
  {Undefined, Null, Str(<<>>), Lit("{malformed"), JsonText(Null),
   JsonText(Obj(RequiredCanonical)), Obj(RequiredAlias)}

Bodies == SmallBodies \cup {Obj(o) : o \in Objects} \cup {JsonText(Obj(o)) : o \in BaseObjects}

Requests ==
  [method : {"POST"}, body : Bodies] \cup [method : {"OPTIONS", "GET", "PUT"}, body : SmallBodies]

NoRequest == [method |-> "", body |-> Undefined]

\* what notion.pages.create resolves with
CreatedPages == {[id |-> Lit("page-1"), url |-> Lit("https://notion.so/page-1")],
                 [id |-> Lit("page-2"), url |-> Undefined]}

\* what notion.pages.create rejects with: an API error, a timeout, a bare Error, a thrown non-Error
NotionErrors ==
  {Err(Lit("Could not find database"), Lit("object_not_found"), Num(404), Lit("{\"object\":\"error\"}")),
   Err(Lit("body failed validation"), Lit("validation_error"), Num(400), Str(<<"{", "}">>)),
   Err(Lit("Request timed out"), Lit("notionhq_client_request_timeout"), Undefined, Undefined),
   Err(Lit("socket hang up"), Undefined, Undefined, Undefined),
   Err(Undefined, Undefined, Undefined, Undefined)}

----------------------------------------------------------------------------
(* The handlers as actions *)

NoPage == [id |-> Undefined, url |-> Undefined]
NoError == Err(Undefined, Undefined, Undefined, Undefined)

\* the promise of notion.pages.create before it settles
Pending == [kind |-> "pending", created |-> NoPage, err |-> NoError]

\* the handler returned after sending response r
Reply(r, c) == /\ res' = r /\ checked' = c /\ pc' = "done" /\ UNCHANGED <<calls, settled>>

\* the handler is suspended in await notion.pages.create(call)
Await(r, c, call) ==
  /\ res' = r /\ checked' = c /\ pc' = "awaiting" /\ calls' = Append(calls, call)
  /\ UNCHANGED settled

MethodNotAllowed == [success |-> Bool(FALSE), error |-> Lit("Method not allowed")]
MissingToken == [success |-> Bool(FALSE), error |-> Lit("Missing env: NOTION_TOKEN")]
MissingDatabaseId == [success |-> Bool(FALSE), error |-> Lit("Missing env: NOTION_DATABASE_ID")]

InvalidDatabaseId(message, valueSeen) ==
  [success |-> Bool(FALSE), error |-> Lit("Invalid env: NOTION_DATABASE_ID"),
   message |-> Lit(message), valueSeen |-> valueSeen]

\* src/unnamed/part_000 lines 45-163: from the request to the first response or the await
Handler_part000 ==
  /\ variant = "part_000" /\ pc = "idle"
  /\ \E r \in Requests, nowIso \in Clock :
       LET r0 == [FreshRes EXCEPT !.headers = Cors("Content-Type, Accept")]
           database_id == normalizeNotionDbId_part000(env.NOTION_DATABASE_ID)
           parsed == body_part000(r)
           body == parsed.value
       IN /\ req' = r
          /\ IF r.method = "OPTIONS" THEN Reply(send(r0, End(200)), {})
             ELSE IF r.method # "POST" THEN Reply(send(r0, Json(405, MethodNotAllowed)), {})
             ELSE IF ~Truthy(env.NOTION_TOKEN)
               THEN Reply(send(r0, Json(500, MissingToken)), {"env"})
             ELSE IF ~Truthy(env.NOTION_DATABASE_ID)
               THEN Reply(send(r0, Json(500, MissingDatabaseId)), {"env"})
             ELSE IF ~Truthy(database_id)
               THEN Reply(send(r0, Json(500, InvalidDatabaseId(
                            "Use the Notion database UUID (32 hex), not a URL.",
                            env.NOTION_DATABASE_ID))), {"env"})
             ELSE IF parsed.throws
               THEN Reply(send(r0, catch_part000(SyntaxError)), {"env", "body"})
             ELSE IF Nullish(body)
               THEN Reply(send(r0, catch_part000(TypeError)), {"env", "body"})
             ELSE IF missingRequired_part000(body)
               THEN Reply(send(r0, Json(400, missingPayload_part000(body))),
                          {"env", "body", "required"})
             ELSE Await(r0, {"env", "body", "required"},
                        [database_id |-> database_id,
                         properties |-> properties_part000(body, nowIso)])
  /\ UNCHANGED <<variant, env, fn, arg, ret>>

\* src/api/cases.js lines 100-157: from the request to the first response or the await
Handler_cases1 ==
  /\ variant = "cases_1" /\ pc = "idle"
  /\ \E r \in Requests :
       LET r0 == [FreshRes EXCEPT !.headers = Cors("Content-Type")]
           rawDbId == env.NOTION_DATABASE_ID
           database_id == normalizeNotionDbId_cases(rawDbId)
           parsed == IF r.body.t = "string" THEN JSONparse(r.body)
                     ELSE [throws |-> FALSE, value |-> r.body]
           body == parsed.value
           built == buildProperties(body)
       IN /\ req' = r
          /\ IF r.method = "OPTIONS" THEN Reply(send(r0, End(200)), {})
             ELSE IF r.method # "POST" THEN Reply(json(r0, 405, MethodNotAllowed), {})
             ELSE IF ~Truthy(env.NOTION_TOKEN) THEN Reply(json(r0, 500, MissingToken), {"env"})
             ELSE IF ~Truthy(rawDbId) THEN Reply(json(r0, 500, MissingDatabaseId), {"env"})
             ELSE IF ~Truthy(database_id)
               THEN Reply(json(r0, 500, InvalidDatabaseId(
                            "NOTION_DATABASE_ID must be the database UUID (32 hex) not a URL. Example: 2d31c70fce6f80969f7ad4bd1ecd16a4",
                            rawDbId)), {"env"})
             ELSE IF parsed.throws
               THEN Reply(json(r0, 400, [success |-> Bool(FALSE), error |-> Lit("Invalid JSON body")]),
                          {"env", "body"})
             ELSE IF ~Truthy(body) \/ body.t \notin {"object", "array"}
               THEN Reply(json(r0, 400, [success |-> Bool(FALSE), error |-> Lit("Request body must be JSON")]),
                          {"env", "body"})
             ELSE IF Truthy(built.error)
               THEN Reply(json(r0, 400, [success |-> Bool(FALSE), error |-> built.error]),
                          {"env", "body", "required"})
             ELSE Await(r0, {"env", "body", "required"},
                        [database_id |-> database_id, properties |-> built.props])
  /\ UNCHANGED <<variant, env, fn, arg, ret>>

\* src/api/cases.js lines 184-256: from the request to the first response or the await
Handler_cases2 ==
  /\ variant = "cases_2" /\ pc = "idle"
  /\ \E r \in Requests :
       LET r0 == [FreshRes EXCEPT !.headers = Cors("Content-Type")]
           NOTION_DATABASE_ID == env.NOTION_DATABASE_ID
           parsed == body_cases2(r)
           b == OrElse(parsed.value, Obj(<<>>))
       IN /\ req' = r
          /\ IF r.method = "OPTIONS" THEN Reply(send(r0, End(200)), {})
             ELSE IF r.method # "POST" THEN Reply(send(r0, Json(405, MethodNotAllowed)), {})
             ELSE IF ~Truthy(env.NOTION_TOKEN)
               THEN Reply(send(r0, Json(500, MissingToken)), {"env"})
             ELSE IF ~Truthy(NOTION_DATABASE_ID)
               THEN Reply(send(r0, Json(500, MissingDatabaseId)), {"env"})
             ELSE IF parsed.throws
               THEN Reply(send(r0, catch_cases2(SyntaxError)), {"env", "body"})
             ELSE IF ~Truthy(Get(b, "caseId"))
               THEN Reply(send(r0, Json(400, [success |-> Bool(FALSE), error |-> Lit("caseId is required")])),
                          {"env", "body", "required"})
             ELSE Await(r0, {"env", "body", "required"},
                        [database_id |-> NOTION_DATABASE_ID, properties |-> properties_cases2(b)])
  /\ UNCHANGED <<variant, env, fn, arg, ret>>

\* the response each handler sends once the awaited create call resolved
onCreated(r, created) ==
  CASE variant = "part_000" -> send(r, created_part000(created, body_part000(req).value))
    [] variant = "cases_1" -> json(r, 200, created_cases1(created))
    [] variant = "cases_2" -> send(r, created_cases2(created))

\* the response each handler's catch clause sends once the awaited create call rejected
onRejected(r, err) ==
  CASE variant = "part_000" -> send(r, catch_part000(err))
    [] variant = "cases_1" -> json(r, 500, catch_cases1(err))
    [] variant = "cases_2" -> send(r, catch_cases2(err))

\* notion.pages.create resolves and the handler resumes after the await
CreateResolves ==
  /\ pc = "awaiting"
  /\ \E created \in CreatedPages :
       /\ res' = onCreated(res, created)
       /\ settled' = [kind |-> "resolved", created |-> created, err |-> NoError]
  /\ pc' = "done"
  /\ UNCHANGED <<variant, env, req, calls, checked, fn, arg, ret>>

\* notion.pages.create rejects and the handler resumes in its catch clause
CreateRejects ==
  /\ pc = "awaiting"
  /\ \E err \in NotionErrors :
       /\ res' = onRejected(res, err)
       /\ settled' = [kind |-> "rejected", created |-> NoPage, err |-> err]
  /\ pc' = "done"
  /\ UNCHANGED <<variant, env, req, calls, checked, fn, arg, ret>>

\* the invocation is over; the next one starts from nothing but the configuration
NextRequest ==
  /\ pc = "done"
  /\ pc' = "idle" /\ req' = NoRequest /\ res' = FreshRes /\ calls' = <<>> /\ checked' = {}
  /\ settled' = Pending
  /\ UNCHANGED <<variant, env, fn, arg, ret>>

Init ==
  /\ variant \in Variants
  /\ env \in Envs
  /\ pc = "idle" /\ req = NoRequest /\ res = FreshRes /\ calls = <<>> /\ checked = {}
  /\ settled = Pending
  /\ fn = "handler" /\ arg = Undefined /\ ret = Undefined

Next ==
  \/ Handler_part000
  \/ Handler_cases1
  \/ Handler_cases2
  \/ CreateResolves
  \/ CreateRejects
  \/ NextRequest

Spec == Init /\ [][Next]_vars

----------------------------------------------------------------------------
(* The pure helpers applied to inputs of their own *)

MaxStrLen == 4
MaxArrLen == 2

ListAlphabet == {" ", ",", "a", "b"}

TextsUpTo(n) == UNION {[1..k -> ListAlphabet] : k \in 0..n}

ElementValues == {Null, Undefined, Str(<<>>), Str(<<" ">>), Str(<<"a">>), Str(<<" ", "b", " ">>), Num(7)}

\* arguments of normalizeArray: absent, texts, numbers, native lists
ArrayInputs ==
  {Undefined, Null, Num(0), Num(12)}
  \cup {Str(t) : t \in TextsUpTo(MaxStrLen)}
  \cup {Arr(l) : l \in UNION {[1..k -> ElementValues] : k \in 0..MaxArrLen}}

IdPrefixes == {<<>>, <<" ">>, NotionUrl, <<"-">>, <<"a">>}
IdSuffixes == {<<>>, <<" ">>, <<"?", "v", "=", "1">>, <<"-">>, <<"F">>}
IdCores ==
  {Token, TokenUpper, DashedUpper,
   <<"-", "-">> \o SubSeq(Token, 1, 16) \o <<"-">> \o SubSeq(TokenUpper, 17, 32),
   SubSeq(Token, 1, 31), SubSeq(Token, 1, 31) \o <<"g">>,
   SubSeq(Token, 1, 16) \o <<" ">> \o SubSeq(Token, 17, 32), <<>>}

\* arguments of normalizeNotionDbId
IdInputs ==
  {Undefined, Null} \cup {Str(p \o c \o x) : p \in IdPrefixes, c \in IdCores, x \in IdSuffixes}

Call_normalizeArray ==
  /\ pc = "call" /\ fn = "normalizeArray"
  /\ ret' = LET r == normalizeArray(arg) IN Arr([i \in 1..Len(r) |-> Str(r[i])])
  /\ pc' = "return"
  /\ UNCHANGED <<variant, env, req, res, calls, settled, checked, fn, arg>>

Call_normalizeNotionDbId_part000 ==
  /\ pc = "call" /\ fn = "normalizeNotionDbId" /\ variant = "part_000"
  /\ ret' = normalizeNotionDbId_part000(arg)
  /\ pc' = "return"
  /\ UNCHANGED <<variant, env, req, res, calls, settled, checked, fn, arg>>

Call_normalizeNotionDbId_cases ==
  /\ pc = "call" /\ fn = "normalizeNotionDbId" /\ variant = "cases_1"
  /\ ret' = normalizeNotionDbId_cases(arg)
  /\ pc' = "return"
  /\ UNCHANGED <<variant, env, req, res, calls, settled, checked, fn, arg>>

InitFn ==
  /\ \/ fn = "normalizeArray" /\ variant = "part_000" /\ arg \in ArrayInputs
     \/ fn = "normalizeNotionDbId" /\ variant \in {"part_000", "cases_1"} /\ arg \in IdInputs
  /\ env = [NOTION_TOKEN |-> Undefined, NOTION_DATABASE_ID |-> Undefined]
  /\ pc = "call" /\ ret = Undefined
  /\ req = NoRequest /\ res = FreshRes /\ calls = <<>> /\ checked = {} /\ settled = Pending

NextFn ==
  \/ Call_normalizeArray
  \/ Call_normalizeNotionDbId_part000
  \/ Call_normalizeNotionDbId_cases

SpecFn == InitFn /\ [][NextFn]_vars

----------------------------------------------------------------------------
(* Vocabulary of the properties *)

Sent == res.sent
Finished == pc = "done"
Handled == pc \in {"awaiting", "done"}
IsPost == req.method = "POST"

\* the request body is absent, a JSON object, or the text of a JSON object
CarriesObject ==
  \/ Nullish(req.body)
  \/ req.body.t = "object"
  \/ req.body.t = "string" /\ req.body.s = <<"{json}">> /\ req.body.o.t = "object"

\* the JSON object the request carries; the empty object when it carries none
Payload ==
  IF req.body.t = "object" THEN req.body
  ELSE IF req.body.t = "string" /\ req.body.s = <<"{json}">> /\ req.body.o.t = "object" THEN req.body.o
  ELSE Obj(<<>>)

\* absent, or empty after trimming
Blank(v) == Nullish(v) \/ trim(String(v)) = <<>>

\* absent, empty after trimming, or a list whose elements are all blank
EmptySource(v) == Blank(v) \/ (v.t = "array" /\ \A i \in 1..Len(v.l) : Blank(v.l[i]))

\* a logical field: the canonical-cased member unless it is absent or null, else the alias
Field(canon, alias) == Coalesce(Get(Payload, canon), Get(Payload, alias))

RequiredFields == {<<"CaseID", "caseId">>, <<"Status", "status">>,
                   <<"Urgency", "urgency">>, <<"Specialty", "specialty">>}

MissingFields == {f \in RequiredFields : Blank(Field(f[1], f[2]))}

LacksRequired == MissingFields # {}

\* the credential is set and the database identifier normalizes
ConfigValid ==
  /\ Truthy(env.NOTION_TOKEN)
  /\ Truthy(env.NOTION_DATABASE_ID)
  /\ normalizeNotionDbId_cases(env.NOTION_DATABASE_ID) # Null

\* exactly one response was sent, with this status, and no create call was issued
RejectedWith(status) ==
  /\ Finished /\ calls = <<>> /\ Len(Sent) = 1 /\ Sent[1].statusCode = status

----------------------------------------------------------------------------
(* C1 *)

\* C1 as stated: every POST with a valid configuration whose payload (the body, absent
\* or a JSON object) lacks, or has empty after trimming, any of identifier, status,
\* urgency, specialty is answered with 400 and issues no create call.
C1_Original ==
  (Handled /\ IsPost /\ ConfigValid /\ CarriesObject /\ LacksRequired) => RejectedWith(400)

\* C1 amended: with a valid configuration and a body that is absent or a JSON object,
\* the part_000 handler answers 400 without a create call when any of the four fields
\* is blank; the two cases.js handlers read only caseId: they answer 400 without a
\* create call when it is blank (cases_1, after trimming) or absent/empty (cases_2,
\* untrimmed), and forward every payload with a non-blank (cases_1) or truthy
\* (cases_2) caseId to the create call whatever else it lacks.
C1_RequiredFields ==
  (Handled /\ IsPost /\ ConfigValid /\ CarriesObject) =>
    CASE variant = "part_000" -> (LacksRequired => RejectedWith(400))
      [] variant = "cases_1" ->
           /\ Blank(Get(Payload, "caseId")) => RejectedWith(400)
           /\ ~Blank(Get(Payload, "caseId")) => Len(calls) = 1
      [] variant = "cases_2" ->
           /\ (Nullish(Get(Payload, "caseId")) \/ Get(Payload, "caseId") = Str(<<>>)) => RejectedWith(400)
           /\ Truthy(Get(Payload, "caseId")) => Len(calls) = 1

\* the full-schema handler rejected a payload that has an identifier but no urgency
C1_Witness ==
  /\ variant = "part_000" /\ IsPost /\ ConfigValid /\ req.body.t = "object"
  /\ ~Blank(Field("CaseID", "caseId")) /\ Blank(Field("Urgency", "urgency"))
  /\ RejectedWith(400)

----------------------------------------------------------------------------
(* C2 *)

ConfigBroken ==
  \/ ~Truthy(env.NOTION_TOKEN)
  \/ ~Truthy(env.NOTION_DATABASE_ID)
  \/ normalizeNotionDbId_cases(env.NOTION_DATABASE_ID) = Null

\* C2: a POST under a missing credential, or a missing or malformed database
\* identifier, is answered with 500, success false, the setting named (and the raw
\* value echoed when malformed), and no create call is issued.
C2_ConfigFailure ==
  (Handled /\ IsPost /\ ConfigBroken) =>
    /\ RejectedWith(500)
    /\ "success" \in DOMAIN Sent[1].body /\ Sent[1].body.success = Bool(FALSE)
    /\ "error" \in DOMAIN Sent[1].body
    /\ Sent[1].body.error =
         IF ~Truthy(env.NOTION_TOKEN) THEN Lit("Missing env: NOTION_TOKEN")
         ELSE IF ~Truthy(env.NOTION_DATABASE_ID) THEN Lit("Missing env: NOTION_DATABASE_ID")
         ELSE Lit("Invalid env: NOTION_DATABASE_ID")
    /\ (Truthy(env.NOTION_TOKEN) /\ Truthy(env.NOTION_DATABASE_ID)) =>
         /\ "valueSeen" \in DOMAIN Sent[1].body
         /\ Sent[1].body.valueSeen = env.NOTION_DATABASE_ID

----------------------------------------------------------------------------
(* C3 *)

CarriesAll(err) ==
  Truthy(err.message) /\ Truthy(err.code) /\ Truthy(err.status) /\ Truthy(err.body)

\* C3: when the create call rejects with an error carrying message, code, status and
\* body, the one response is 500 with success false and all four unchanged, and the
\* request issued one create call only.
C3_ErrorPropagated ==
  (Finished /\ settled.kind = "rejected" /\ CarriesAll(settled.err)) =>
    /\ Len(calls) = 1 /\ Len(Sent) = 1
    /\ Sent[1].statusCode = 500
    /\ {"success", "message", "code", "status", "body"} \subseteq DOMAIN Sent[1].body
    /\ Sent[1].body.success = Bool(FALSE)
    /\ Sent[1].body.message = settled.err.message
    /\ Sent[1].body.code = settled.err.code
    /\ Sent[1].body.status = settled.err.status
    /\ Sent[1].body.body = settled.err.body

\* a create call rejected with a full API error and the handler has answered
C3_Witness ==
  Finished /\ settled.kind = "rejected" /\ CarriesAll(settled.err) /\ Len(Sent) = 1

----------------------------------------------------------------------------
(* C4 *)

\* the request passes the handler's own configuration, body and required-field checks
PassesChecks ==
  /\ IsPost /\ CarriesObject
  /\ CASE variant = "part_000" -> ConfigValid /\ ~LacksRequired
       [] variant = "cases_1" -> ConfigValid /\ ~Blank(Get(Payload, "caseId"))
       [] variant = "cases_2" -> /\ Truthy(env.NOTION_TOKEN) /\ Truthy(env.NOTION_DATABASE_ID)
                                 /\ Truthy(Get(Payload, "caseId"))

\* the response reports success with the created record's identifier
ReportsCreated(response) ==
  /\ response.statusCode = 200
  /\ "success" \in DOMAIN response.body /\ response.body.success = Bool(TRUE)
  /\ \/ "notionPageId" \in DOMAIN response.body /\ response.body.notionPageId = settled.created.id
     \/ "id" \in DOMAIN response.body /\ response.body.id = settled.created.id

\* C4: a POST that passes the checks issues exactly one create call, sends nothing
\* while the call is pending, then sends exactly one response, which is 200 with
\* success true and the record's identifier exactly when the call resolved.
C4_OneCallOneResponse ==
  (Handled /\ PassesChecks) =>
    /\ Len(calls) = 1
    /\ pc = "awaiting" => (Sent = <<>> /\ settled.kind = "pending")
    /\ Finished =>
         /\ Len(Sent) = 1 /\ settled.kind # "pending"
         /\ ReportsCreated(Sent[1]) <=> settled.kind = "resolved"

\* a checked request whose create call resolved and was answered
C4_Witness ==
  Finished /\ PassesChecks /\ settled.kind = "resolved" /\ Len(Sent) = 1 /\ Sent[1].statusCode = 200

----------------------------------------------------------------------------
(* C5 *)

\* the fields a handler may leave out, with the member names it reads them from
Omittable ==
  IF variant = "part_000"
  THEN {<<"Age", "age">>, <<"Gender", "gender">>, <<"Country", "country">>,
        <<"ChiefComplaint", "chiefComplaint">>, <<"Imaging", "imaging">>, <<"Notes", "notes">>,
        <<"HospitalsShortlist", "hospitalsShortlist">>, <<"Budget", "budget">>}
  ELSE {<<"Specialty", "specialty">>, <<"Urgency", "urgency">>, <<"Country", "country">>,
        <<"ChiefComplaint", "chiefComplaint">>, <<"Imaging", "imaging">>, <<"Notes", "notes">>}

SourceOf(f) == IF variant = "part_000" THEN Field(f[1], f[2]) ELSE Get(Payload, f[2])

\* the value a property carries is not empty
Carries(prop) ==
  IF prop.type = "multi_select" THEN \A i \in 1..Len(prop.v.l) : ~Blank(prop.v.l[i])
  ELSE ~Blank(prop.v)

\* C5: the property set handed to the create call holds no property whose source
\* value was absent or empty after trimming (strings, free text, numbers, lists), and
\* no property (timestamps and source included) carrying an empty value.
C5_OmissionLaw ==
  (variant \in {"part_000", "cases_1"}) =>
    \A i \in 1..Len(calls) :
      /\ \A f \in Omittable : EmptySource(SourceOf(f)) => f[1] \notin DOMAIN calls[i].properties
      /\ \A k \in DOMAIN calls[i].properties : Carries(calls[i].properties[k])

----------------------------------------------------------------------------
(* C6 *)

CorsHeaders(allowHeaders) ==
  {<<"Access-Control-Allow-Origin", "*">>,
   <<"Access-Control-Allow-Methods", "POST,OPTIONS">>,
   <<"Access-Control-Allow-Headers", allowHeaders>>}

\* C6: a request that is not a POST runs no configuration or body check and issues
\* no create call; OPTIONS gets an empty 200, any other method 405 with
\* {success:false, error:"Method not allowed"}; every response carries the
\* cross-origin headers.
C6_MethodGate ==
  /\ (Handled /\ ~IsPost) =>
       /\ Finished /\ calls = <<>> /\ checked = {} /\ Len(Sent) = 1
       /\ req.method = "OPTIONS" => Sent[1] = [statusCode |-> 200, json |-> FALSE, body |-> <<>>]
       /\ req.method # "OPTIONS" =>
            Sent[1] = [statusCode |-> 405, json |-> TRUE,
                       body |-> [success |-> Bool(FALSE), error |-> Lit("Method not allowed")]]
  /\ Sent # <<>> =>
       \E h \in {"Content-Type", "Content-Type, Accept"} : CorsHeaders(h) \subseteq res.headers

\* a GET was answered although the credential is missing
C6_Witness ==
  Finished /\ req.method = "GET" /\ ~Truthy(env.NOTION_TOKEN) /\ Len(Sent) = 1

----------------------------------------------------------------------------
(* C7 *)

\* the one response is the 400 of a failed required-field check
ValidationFailure ==
  /\ Finished /\ IsPost /\ Len(Sent) = 1 /\ Sent[1].statusCode = 400
  /\ Sent[1].body.error \in {Lit("Missing required fields"), Lit("caseId is required")}

Label(f) == Lit(f[2] \o "/" \o f[1])

\* the required fields the error body names
NamedFields ==
  IF "required" \in DOMAIN Sent[1].body
  THEN {f \in RequiredFields : \E i \in 1..Len(Sent[1].body.required.l) : Sent[1].body.required.l[i] = Label(f)}
  ELSE {f \in RequiredFields : f[2] = "caseId"}

\* the key names the error body echoes
EchoedKeys ==
  IF "receivedKeys" \in DOMAIN Sent[1].body
  THEN {Sent[1].body.receivedKeys.l[i] : i \in 1..Len(Sent[1].body.receivedKeys.l)}
  ELSE {}

SuppliedKeys == {Lit(k) : k \in DOMAIN Payload.o}

\* C7 as stated: the 400 body names exactly the missing fields and echoes the key
\* names the caller supplied, and no value.
C7_Original ==
  ValidationFailure =>
    /\ NamedFields = MissingFields
    /\ "receivedKeys" \in DOMAIN Sent[1].body
    /\ EchoedKeys = SuppliedKeys

\* C7 amended: the part_000 handler's 400 body lists all four required fields,
\* whichever are missing, and echoes exactly the key names of the body; the cases.js
\* handlers answer {success:false, error:"caseId is required"} and echo nothing; no
\* handler echoes a field value.
C7_ValidationBody ==
  ValidationFailure =>
    IF variant = "part_000"
    THEN /\ DOMAIN Sent[1].body = {"success", "error", "required", "receivedKeys"}
         /\ Sent[1].body.success = Bool(FALSE)
         /\ NamedFields = RequiredFields
         /\ Len(Sent[1].body.required.l) = Cardinality(RequiredFields)
         /\ EchoedKeys = SuppliedKeys
         /\ Len(Sent[1].body.receivedKeys.l) = Cardinality(SuppliedKeys)
    ELSE Sent[1].body = [success |-> Bool(FALSE), error |-> Lit("caseId is required")]

\* the full-schema handler rejected a payload that supplies some required field
C7_Witness ==
  /\ ValidationFailure /\ variant = "part_000"
  /\ MissingFields # {} /\ MissingFields # RequiredFields
  /\ SuppliedKeys # {}

----------------------------------------------------------------------------
(* C8 *)

LowerHex == {"0", "1", "2", "3", "4", "5", "6", "7", "8", "9", "a", "b", "c", "d", "e", "f"}

\* lowercase 32-hex text in the dashed 8-4-4-4-12 grouping
IsCanonical(s) ==
  /\ Len(s) = 36
  /\ \A i \in 1..36 : IF i \in {9, 14, 19, 24} THEN s[i] = "-" ELSE s[i] \in LowerHex

\* some stretch of the text is 32 hex characters, dashes aside
ContainsHexToken(v) ==
  /\ v.t = "string"
  /\ \E i \in 1..Len(v.s) : \E j \in i..Len(v.s) :
       /\ \A k \in i..j : v.s[k] \in HexChars \cup {"-"}
       /\ Cardinality({k \in i..j : v.s[k] # "-"}) = 32

Renormalized ==
  IF variant = "part_000" THEN normalizeNotionDbId_part000(ret) ELSE normalizeNotionDbId_cases(ret)

\* C8: a non-null result of normalizeNotionDbId is a lowercase dashed 8-4-4-4-12
\* string that normalizes to itself; an input holding no 32-hex-character token
\* (dashes aside) normalizes to null.
C8_Idempotent ==
  (pc = "return" /\ fn = "normalizeNotionDbId") =>
    /\ ret # Null => (ret.t = "string" /\ IsCanonical(ret.s) /\ Renormalized = ret)
    /\ ~ContainsHexToken(arg) => ret = Null

\* an upper-case token inside a URL was extracted and normalized
C8_Witness ==
  /\ pc = "return" /\ fn = "normalizeNotionDbId"
  /\ ret # Null /\ Len(arg.s) > 36 /\ \E i \in 1..Len(arg.s) : arg.s[i] = "F"

----------------------------------------------------------------------------
(* C9 *)

NonEmpty(l) == SelectSeq(l, LAMBDA x : x # <<>>)

\* the list coercion as the property states it
ListCoercion(v) ==
  IF Nullish(v) THEN <<>>
  ELSE IF v.t = "array"
    THEN NonEmpty([i \in 1..Len(v.l) |-> IF Nullish(v.l[i]) THEN <<>> ELSE trim(String(v.l[i]))])
  ELSE LET parts == split(String(v)) IN NonEmpty([i \in 1..Len(parts) |-> trim(parts[i])])

\* C9: normalizeArray returns the empty sequence for an absent value, the trimmed
\* non-empty stringified elements of a native list, and the trimmed non-empty
\* comma-split segments of anything else, in order; no element of the result is
\* empty or has leading or trailing whitespace.
C9_ListCoercion ==
  (pc = "return" /\ fn = "normalizeArray") =>
    /\ ret.l = [i \in 1..Len(ListCoercion(arg)) |-> Str(ListCoercion(arg)[i])]
    /\ \A i \in 1..Len(ret.l) : ret.l[i].s # <<>> /\ trim(ret.l[i].s) = ret.l[i].s

----------------------------------------------------------------------------
(* C10 *)

\* C10: the database identifier of every create call is the canonical lowercase
\* dashed normalization of NOTION_DATABASE_ID, never the raw value when that differs.
C10_CanonicalTarget ==
  \A i \in 1..Len(calls) :
    /\ calls[i].database_id.t = "string"
    /\ IsCanonical(calls[i].database_id.s)
    /\ calls[i].database_id = normalizeNotionDbId_cases(env.NOTION_DATABASE_ID)

====
